---- MODULE Spec2Model ----
(***************************************************************************)
(* Dashboard backend (src/dashboard-api/main.py) brokering access to the   *)
(* DSS F1 job service (src/dss-api/main.py): request admission, the        *)
(* background workflow with its SSE credential receiver, the mediated and  *)
(* direct job calls, and the completion webhook.                           *)
(*                                                                         *)
(* asyncio runs one coroutine at a time and switches only at an await, so  *)
(* every action below is the code between two suspension points.           *)
(***************************************************************************)
EXTENDS Integers, Sequences, FiniteSets, TLC

\* ---------------------------------------------------------------- bounds
MaxAdmissions == 2      \* requests admitted in one run of the model
MaxClock == 2           \* last clock reading (in sub-second ticks)
Timeout == 2            \* get_credentials timeout in ticks (the source's default is 60)

\* ------------------------------------------------------------- constants
TicksPerSecond == 2     \* clock readings per second of '%Y%m%d_%H%M%S'

Users == {"u1", "u2"}
Results == {"r1", "None"}           \* callback_data["result"], "None": key absent

None == -1              \* an absent integer-valued key (dict.get gives None)
NoStr == "None"         \* an absent string-valued key
EmptyDict == "{}"

Tasks == 1..MaxAdmissions

\* ------------------------------------------------------------- variables
VARIABLES
    scope,              \* the inputs the environment draws from (fixed by Init)
    now,                \* datetime.now(), in ticks
    requests_storage,   \* the dict, as the sequence of its values in insertion order
    admitted,           \* number of request_f1_tool calls so far
    task,               \* task[i]: the background task of the i-th admission
    receiver,           \* receiver[i]: its SSEPullCredentialsReceiver and listen_task
    http,               \* http[i]: the job API calls it made, in order
    logs,               \* logs[i]: the log lines it wrote
    jobs_storage,       \* the job service's dict, as the sequence of its values
    posting,            \* the job whose task is inside requests.post (None: none)
    in_flight,          \* the jobs whose notification is on its way to the dashboard
    cb                  \* the last dss_webhook_callback call and what it saw

vars == <<scope, now, requests_storage, admitted, task, receiver, http, logs, jobs_storage, posting, in_flight, cb>>

\* --------------------------------------------------------------- helpers
Min(S) == CHOOSE x \in S : \A y \in S : x <= y

\* datetime.now().strftime('%Y%m%d_%H%M%S'): the reading cut to whole seconds
Strftime(t) == t \div TicksPerSecond

\* f"req_{...}_{user_id}"
RequestId(t, user) == <<"req", Strftime(t), user>>

\* f"http://dashboard_api:8000/webhooks/dss-callback/{user_id}"
CallbackUrl(user) == <<"dss-callback", user>>

\* position of a key in the dict, 0 when absent
IndexOf(rs, key) ==
    LET S == {k \in 1..Len(rs) : rs[k].request_id = key}
    IN IF S = {} THEN 0 ELSE Min(S)

\* d[key] = rec: an existing key keeps its position, a new key goes last
DictSet(rs, key, rec) ==
    IF IndexOf(rs, key) = 0 THEN Append(rs, rec)
    ELSE [rs EXCEPT ![IndexOf(rs, key)] = rec]

NewRecord(rid, req, t) ==
    [request_id |-> rid,
     user_id |-> req.user_id,
     building_id |-> req.building_id,
     optimization_type |-> req.optimization_type,
     status |-> "initiated",
     created_at |-> t,
     dss_job_id |-> None,
     dss_result |-> NoStr,
     completed_at |-> None,
     error |-> NoStr]

\* the requests the clients send: each user asks for a building of its own
Requests ==
    {[user_id |-> "u1", building_id |-> "building_001",
      optimization_type |-> "energy_efficiency"],
     [user_id |-> "u2", building_id |-> "building_002",
      optimization_type |-> "energy_efficiency"]}

NoTask ==
    [pc |-> "none", request_id |-> <<>>, f1_request |-> <<>>,
     transfer_id |-> None, polls |-> 0, dss_job_id |-> None, exc |-> NoStr,
     stage_exc |-> NoStr]

NoReceiver ==
    [credentials |-> <<>>, listening |-> FALSE, client |-> FALSE,
     listen_task |-> "none", cancel_called |-> FALSE]

NoCb == [sender |-> None, hit |-> -1, seen |-> NoStr, response |-> NoStr]

InitState ==
    /\ now = scope.start
    /\ requests_storage = <<>>
    /\ admitted = 0
    /\ task = [i \in Tasks |-> NoTask]
    /\ receiver = [i \in Tasks |-> NoReceiver]
    /\ http = [i \in Tasks |-> <<>>]
    /\ logs = [i \in Tasks |-> {}]
    /\ jobs_storage = <<>>
    /\ posting = None
    /\ in_flight = {}
    /\ cb = NoCb


\* ------------------------------------------------ SSEPullCredentialsReceiver
TransferIds == Tasks    \* run_transfer_flow of the i-th task answers transfer id i

NoCred == [transfer_process_id |-> None, authKey |-> NoStr, token |-> NoStr]

\* the JSON objects a "data: " line may carry
Payloads ==
    [transfer_process_id : TransferIds \cup {None},
     authKey : {NoStr, "tok-a"},
     token : {NoStr}]
    \cup
    [transfer_process_id : TransferIds, authKey : {NoStr}, token : {"tok-t"}]

\* the lines of the event stream
Lines ==
    [kind : {"data"}, data : Payloads]
    \cup {[kind |-> "comment", data |-> NoCred], [kind |-> "badjson", data |-> NoCred]}

\* SSEPullCredentialsReceiver.__init__ and asyncio.create_task(start_listening)
NewReceiver ==
    [credentials |-> [t \in TransferIds |-> NoCred],
     listening |-> FALSE, client |-> FALSE,
     listen_task |-> "created", cancel_called |-> FALSE]

\* _process_sse_line: the credentials dict after one line
_process_sse_line(credentials, line) ==
    IF line.kind = "data" /\ line.data.transfer_process_id # None
    THEN [credentials EXCEPT ![line.data.transfer_process_id] = line.data]
    ELSE credentials

\* transfer_id in self.credentials
HasCredentials(credentials, transfer_id) == credentials[transfer_id] # NoCred

\* credentials.get("authKey") or credentials.get("token")
AccessToken(credentials) ==
    IF credentials.authKey # NoStr THEN credentials.authKey ELSE credentials.token

TaskDone(state) == state \in {"ended", "failed", "cancelled"}

\* ----------------------------------------------------------------- scopes
\* the lines that carry a usable credential
GoodLines == {l \in Lines : l.kind = "data" /\ l.data.authKey # NoStr
                               /\ l.data.transfer_process_id # None}

\* callback_data: job_id may be absent (None), result may be absent ("None")
JobIds == (0..(2 * MaxAdmissions)) \cup {None}
CallbackData == [job_id : JobIds, result : Results]

\* the bodies sent: no job id, an unknown one, or that of a job of the service
Sent(jobs, results) ==
    {d \in CallbackData : d.job_id <= Len(jobs) /\ d.result \in results}

\* what may go wrong outside the program
Faults == {"negotiation", "transfer", "stream", "mediated", "direct", "callback"}

\* the requests of these users
RequestsOf(users) == {r \in Requests : r.user_id \in users}

\* A scope is what the environment does in one run: how many requests the
\* clients send, of which users, and whether the next one is sent while a
\* workflow runs; the first and last reading of the clock; the lines of the
\* stream; what fails outside the program; for which users, with which job ids
\* and results others post notifications; whether a client cancels jobs.  The
\* program's own tasks run alike in every scope.

\* one request, and every answer of the connectors and of the job API
ScopeWorkflow ==
    [name |-> "workflow", admissions |-> 1, overlap |-> TRUE,
     start |-> 0, clock |-> 0, requests |-> Requests, lines |-> GoodLines,
     faults |-> Faults \ {"callback"},
     callers |-> {}, job_ids |-> {}, results |-> {}, cancels |-> FALSE]

\* one request, and every line and every end of the stream
ScopeStream ==
    [name |-> "stream", admissions |-> 1, overlap |-> TRUE,
     start |-> 0, clock |-> 0, requests |-> RequestsOf({"u1"}), lines |-> Lines,
     faults |-> {"stream"},
     callers |-> {}, job_ids |-> {}, results |-> {}, cancels |-> FALSE]

\* one request, the notifications of the job service and of others, over a
\* network that may fail, and a client that cancels jobs
ScopeJobs ==
    [name |-> "jobs", admissions |-> 1, overlap |-> TRUE,
     start |-> 0, clock |-> 1, requests |-> Requests, lines |-> GoodLines,
     faults |-> {"callback"},
     callers |-> Users, job_ids |-> JobIds, results |-> Results, cancels |-> TRUE]

\* two requests of one user, the second sent when the first workflow has
\* ended, over a change of the clock's second, and notifications without a
\* job id
ScopeRegistry ==
    [name |-> "registry", admissions |-> MaxAdmissions, overlap |-> FALSE,
     start |-> 1, clock |-> MaxClock, requests |-> RequestsOf({"u1"}),
     lines |-> GoodLines, faults |-> {},
     callers |-> {"u1"}, job_ids |-> {None}, results |-> {"r1"}, cancels |-> FALSE]

\* two requests of one user within one reading of the clock, their workflows
\* side by side
ScopeConcurrent ==
    [name |-> "concurrent", admissions |-> MaxAdmissions, overlap |-> TRUE,
     start |-> 0, clock |-> 0, requests |-> RequestsOf({"u1"}),
     lines |-> GoodLines, faults |-> {},
     callers |-> {}, job_ids |-> {}, results |-> {}, cancels |-> FALSE]

Scopes == {ScopeWorkflow, ScopeStream, ScopeJobs, ScopeRegistry, ScopeConcurrent}

Init == scope \in Scopes /\ InitState
InitWorkflow == scope \in {ScopeWorkflow, ScopeStream, ScopeJobs} /\ InitState

\* ------------------------------------------------------------ the workflow
\* The part of the program one task's step can change.
Bundle ==
    [rs |-> requests_storage, task |-> task, receiver |-> receiver,
     http |-> http, logs |-> logs]

SetTask(s, i, t) == [s EXCEPT !.task[i] = t]
Log(s, i, line) == [s EXCEPT !.logs[i] = @ \cup {line}]

\* requests_storage[request_id][field] = value
SetField(rs, key, field, value) ==
    [rs EXCEPT ![IndexOf(rs, key)] = [@ EXCEPT ![field] = value]]

\* an exception raised by a stage inside the inner try: control enters finally
Raise(s, i, msg) ==
    [s EXCEPT !.task[i].exc = msg, !.task[i].stage_exc = msg, !.task[i].pc = "finally"]

\* job_request, headers and callback_url of one POST to the job API
JobCall(endpoint, auth, req) ==
    [endpoint |-> endpoint,
     auth |-> auth,
     building_id |-> req.building_id,
     optimization_type |-> req.optimization_type,
     callback_url |-> CallbackUrl(req.user_id),
     job_id |-> None,
     outcome |-> "pending"]

\* run_edcpy_negotiation_and_transfer is left: its locals are gone
Dropped(s, i) ==
    [s EXCEPT !.receiver[i].credentials = [t \in TransferIds |-> NoCred],
              !.task[i].polls = 0]

\* a variant that takes the entry out of the store when it returns it
GetCredentials_Pops(s, i) ==
    LET t == s.task[i]
    IN IF t.polls >= Timeout
       THEN Raise(s, i, "CredentialTimeout")
       ELSE IF HasCredentials(s.receiver[i].credentials, t.transfer_id)
            THEN [s EXCEPT !.task[i].pc = "access_token",
                           !.receiver[i].credentials[t.transfer_id] = NoCred]
            ELSE SetTask(s, i, [t EXCEPT !.pc = "sleep"])

\* get_credentials: for _ in range(timeout): return the entry if present, else
\* sleep(1); after the last sleep the loop ends and TimeoutError is raised
GetCredentials(s, i) ==
    LET t == s.task[i]
    IN IF t.polls >= Timeout
       THEN Raise(s, i, "CredentialTimeout")
       ELSE IF HasCredentials(s.receiver[i].credentials, t.transfer_id)
            THEN SetTask(s, i, [t EXCEPT !.pc = "access_token"])
            ELSE SetTask(s, i, [t EXCEPT !.pc = "sleep"])

\* a variant that posts whatever the credentials hold, a missing token included
ExtractToken_NoCheck(s, i) ==
    LET t == s.task[i]
        access_token == AccessToken(s.receiver[i].credentials[t.transfer_id])
    IN [s EXCEPT !.task[i].pc = "mediated",
                 !.http[i] = Append(@, JobCall("mediated", access_token, t.f1_request))]

\* the access token of the credentials, then the POST of
\* call_dss_f1_service_with_token
ExtractToken(s, i) ==
    LET t == s.task[i]
        access_token == AccessToken(s.receiver[i].credentials[t.transfer_id])
    IN IF access_token = NoStr
       THEN Raise(s, i, "NoAccessToken")
       ELSE [s EXCEPT !.task[i].pc = "mediated",
                      !.http[i] = Append(@, JobCall("mediated", access_token,
                                                    t.f1_request))]

\* finally: stop_listening(), which awaits aclose() when there is a client
StopListening(s, i) ==
    [s EXCEPT !.receiver[i].listening = FALSE,
              !.task[i].pc = IF s.receiver[i].client THEN "aclose" ELSE "cancel"]

\* listen_task.cancel(); await listen_task
CancelListenTask(s, i) ==
    IF TaskDone(s.receiver[i].listen_task)
    THEN [s EXCEPT !.receiver[i].cancel_called = TRUE, !.task[i].pc = "awaited"]
    ELSE [s EXCEPT !.receiver[i].cancel_called = TRUE,
                   !.receiver[i].listen_task = "cancelling",
                   !.task[i].pc = "await_listen"]

\* a variant that lets the CancelledError of the awaited task through
AwaitedListenTask_NotSwallowed(s, i) ==
    IF s.receiver[i].listen_task = "failed"
    THEN [s EXCEPT !.task[i].exc = "SSEFailed", !.task[i].pc = "exit"]
    ELSE IF s.receiver[i].listen_task = "cancelled"
         THEN [s EXCEPT !.task[i].exc = "CancelledError", !.task[i].pc = "exit"]
         ELSE [s EXCEPT !.task[i].pc = "exit"]

\* what await listen_task gives once the task is done: its CancelledError is
\* swallowed, its exception replaces whatever was returned or raised
AwaitedListenTask(s, i) ==
    IF s.receiver[i].listen_task = "failed"
    THEN [s EXCEPT !.task[i].exc = "SSEFailed", !.task[i].pc = "exit"]
    ELSE [s EXCEPT !.task[i].pc = "exit"]

\* back in process_f1_request: the job id and dss_job_running, or failed and
\* the message; the receiver went out of scope
Finish(s, i) ==
    LET t == s.task[i]
    IN IF t.exc = NoStr
       THEN Log([Dropped(s, i) EXCEPT
                    !.rs = SetField(SetField(s.rs, t.request_id, "dss_job_id",
                                             t.dss_job_id),
                                    t.request_id, "status", "dss_job_running"),
                    !.task[i].pc = "done"], i, "processed")
       ELSE Log(Log([Dropped(s, i) EXCEPT
                    !.rs = SetField(SetField(s.rs, t.request_id, "status", "failed"),
                                    t.request_id, "error", t.exc),
                    !.task[i].pc = "done"], i, "edc_failed"), i, "process_failed")

\* the positions at which a task waits for something outside it
Waiting ==
    {"none", "queued", "negotiation", "transfer", "sleep", "mediated", "direct",
     "aexit", "aclose", "await_listen", "done"}

\* the code of task i at its position, up to the next position
Step(s, i) ==
    LET pc == s.task[i].pc
    IN CASE pc = "get_credentials" -> GetCredentials(s, i)
         [] pc = "access_token" -> ExtractToken(s, i)
         [] pc = "finally" -> StopListening(s, i)
         [] pc = "cancel" -> CancelListenTask(s, i)
         [] pc = "awaited" -> AwaitedListenTask(s, i)
         [] pc = "exit" -> Finish(s, i)

\* Runs task i from its position to its next await (or to its end).
RECURSIVE Run(_, _)
Run(s, i) ==
    IF s.task[i].pc \in Waiting THEN s
    ELSE CHOOSE r \in {Run(n, i) : n \in {Step(s, i)}} : TRUE

\* the step's result becomes the next state
Becomes(s) ==
    /\ requests_storage' = s.rs
    /\ task' = s.task
    /\ receiver' = s.receiver
    /\ http' = s.http
    /\ logs' = s.logs
    /\ cb' = NoCb
    /\ UNCHANGED <<scope, now, admitted, jobs_storage, posting, in_flight>>

\* the background task starts: up to await controller.run_negotiation_flow
process_f1_request(i) ==
    /\ task[i].pc = "queued"
    /\ Becomes([Bundle EXCEPT
                  !.rs = SetField(requests_storage, task[i].request_id, "status",
                                  "processing_via_edcpy"),
                  !.receiver[i] = NewReceiver,
                  !.task[i].pc = "negotiation"])

\* run_negotiation_flow returns the transfer details or raises
negotiation_returns(i, ok) ==
    /\ task[i].pc = "negotiation"
    /\ ok => receiver[i].listen_task # "created"
    /\ ~ok => "negotiation" \in scope.faults
    /\ Becomes(IF ok THEN SetTask(Bundle, i, [task[i] EXCEPT !.pc = "transfer"])
               ELSE Run(Raise(Bundle, i, "NegotiationFailed"), i))

\* run_transfer_flow returns the transfer process or raises
transfer_returns(i, ok) ==
    /\ task[i].pc = "transfer"
    /\ ~ok => "transfer" \in scope.faults
    /\ Becomes(IF ok THEN Run(SetTask(Bundle, i, [task[i] EXCEPT !.transfer_id = i,
                                                               !.pc = "get_credentials"]), i)
               ELSE Run(Raise(Bundle, i, "TransferFailed"), i))

\* asyncio.sleep(1) in get_credentials returns
sleep_returns(i) ==
    /\ task[i].pc = "sleep"
    /\ Becomes(Run(SetTask(Bundle, i, [task[i] EXCEPT !.polls = @ + 1,
                                                     !.pc = "get_credentials"]), i))

\* the await of stop_listening's self._client.aclose() returns
aclose_returns(i) ==
    /\ task[i].pc = "aclose"
    /\ Becomes(Run(SetTask(Bundle, i, [task[i] EXCEPT !.pc = "cancel"]), i))

\* the await of the cancelled listen_task returns
await_listen_returns(i) ==
    /\ task[i].pc = "await_listen"
    /\ TaskDone(receiver[i].listen_task)
    /\ Becomes(Run(SetTask(Bundle, i, [task[i] EXCEPT !.pc = "awaited"]), i))

\* ------------------------------------------------------- the listen task
\* start_listening up to the await of the stream
start_listening(i) ==
    /\ receiver[i].listen_task = "created"
    /\ Becomes([Bundle EXCEPT !.receiver[i].client = TRUE,
                              !.receiver[i].listening = TRUE,
                              !.receiver[i].listen_task = "running"])

\* one pass of the async for: a line arrives
sse_line(i, line) ==
    /\ receiver[i].listen_task = "running"
    /\ Becomes(IF ~receiver[i].listening
               THEN [Bundle EXCEPT !.receiver[i].listen_task = "ended"]
               ELSE [Bundle EXCEPT !.receiver[i].credentials =
                                        _process_sse_line(@, line)])

\* the connection fails, answers an error status or breaks: logged and re-raised
sse_fails(i) ==
    /\ receiver[i].listen_task = "running"
    /\ "stream" \in scope.faults
    /\ Becomes(Log([Bundle EXCEPT !.receiver[i].listen_task = "failed"], i, "sse_failed"))

\* the stream ends: start_listening returns
sse_ends(i) ==
    /\ receiver[i].listen_task = "running"
    /\ "stream" \in scope.faults
    /\ Becomes([Bundle EXCEPT !.receiver[i].listen_task = "ended"])

\* CancelledError is thrown into the listen task
listen_cancelled(i) ==
    /\ receiver[i].listen_task = "cancelling"
    /\ Becomes([Bundle EXCEPT !.receiver[i].listen_task = "cancelled"])

\* ------------------------------------------------------------ the job API
\* the job service's create_f1_job handles the POST in flight of task i
create_f1_job(i) ==
    /\ task[i].pc \in {"mediated", "direct"}
    /\ http[i][Len(http[i])].job_id = None
    /\ posting = None
    /\ Len(jobs_storage) < 2 * MaxAdmissions
    /\ LET job_id == Len(jobs_storage) + 1
           call == http[i][Len(http[i])]
       IN /\ jobs_storage' = Append(jobs_storage,
                [job_id |-> job_id, status |-> "pending", progress |-> 0,
                 building_id |-> call.building_id,
                 optimization_type |-> call.optimization_type,
                 callback_url |-> call.callback_url,
                 result |-> NoStr])
          /\ http' = [http EXCEPT ![i][Len(http[i])].job_id = job_id]
    /\ cb' = NoCb
    /\ UNCHANGED <<scope, now, requests_storage, admitted, task, receiver, logs, posting, in_flight>>

\* the answer to the POST in flight
SetOutcome(s, i, outcome) == [s EXCEPT !.http[i][Len(s.http[i])].outcome = outcome]

\* response.json()["job_id"] of the POST in flight
JobId(s, i) == s.http[i][Len(s.http[i])].job_id

\* the POST is answered: a 2xx answer with a job id is logged, any other answer
\* or a failure of the connection raises; either way control leaves the
\* `async with httpx.AsyncClient()` block, whose exit is awaited
PostAnswered(s, i, ok, line) ==
    IF ok THEN Log([SetOutcome(s, i, "ok") EXCEPT !.task[i].pc = "aexit"], i, line)
    ELSE [SetOutcome(s, i, "error") EXCEPT !.task[i].pc = "aexit"]

\* the mediated call returns the job id it logged
MediatedOk(s, i) ==
    [s EXCEPT !.task[i].dss_job_id = JobId(s, i), !.task[i].pc = "finally"]

\* a variant whose except clause re-raises instead of calling the direct endpoint
MediatedFailed_NoFallback(s, i) ==
    Raise(Log(s, i, "mediated_failed"), i, "MediatedCallFailed")

\* the mediated call failed: logged, then the POST of call_dss_f1_service_direct
MediatedFailed(s, i) ==
    Log([s EXCEPT !.task[i].pc = "direct",
                  !.http[i] = Append(@, JobCall("direct", "dss-backend-key",
                                                s.task[i].f1_request))],
        i, "mediated_failed")

\* a variant that does not return the job id it logged
DirectOk_NoReturn(s, i) ==
    [s EXCEPT !.task[i].pc = "finally"]

\* the direct call returns the job id it logged
DirectOk(s, i) ==
    [s EXCEPT !.task[i].dss_job_id = JobId(s, i), !.task[i].pc = "finally"]

\* the direct call failed: logged and re-raised
DirectFailed(s, i) ==
    Raise(Log(s, i, "direct_failed"), i, "DirectCallFailed")

\* call_dss_f1_service_with_token: the mediated POST is answered
call_dss_f1_service_with_token(i, ok) ==
    /\ task[i].pc = "mediated"
    /\ ok => JobId(Bundle, i) # None
    /\ ~ok => "mediated" \in scope.faults
    /\ Becomes(PostAnswered(Bundle, i, ok, "created_via_connector"))

\* call_dss_f1_service_direct: the direct POST is answered
call_dss_f1_service_direct(i, ok) ==
    /\ task[i].pc = "direct"
    /\ ok => JobId(Bundle, i) # None
    /\ ~ok => "direct" \in scope.faults
    /\ Becomes(PostAnswered(Bundle, i, ok, "created_direct"))

\* the code after the exit of the `async with` block of the POST in flight
AfterExit(s, i) ==
    LET call == s.http[i][Len(s.http[i])]
    IN IF call.endpoint = "mediated"
       THEN IF call.outcome = "ok" THEN MediatedOk(s, i) ELSE MediatedFailed(s, i)
       ELSE IF call.outcome = "ok" THEN DirectOk(s, i) ELSE DirectFailed(s, i)

\* the awaited exit of `async with httpx.AsyncClient()` returns: the job id is
\* returned, or the except clause runs
aexit_returns(i) ==
    /\ task[i].pc = "aexit"
    /\ Becomes(Run(AfterExit(Bundle, i), i))

\* ------------------------------------------------------------ the webhook
\* a variant that correlates by user alone
Matches_UserOnly(request_data, user_id, callback_data) ==
    request_data.user_id = user_id

\* request_data["user_id"] == user_id and
\* request_data.get("dss_job_id") == callback_data.get("job_id")
Matches(request_data, user_id, callback_data) ==
    /\ request_data.user_id = user_id
    /\ request_data.dss_job_id = callback_data.job_id

\* a variant that goes on scanning and updates the last record that matches
FirstMatch_Last(rs, k, user_id, callback_data) ==
    LET M == {j \in k..Len(rs) : Matches(rs[j], user_id, callback_data)}
    IN IF M = {} THEN 0 ELSE CHOOSE j \in M : \A m \in M : m <= j

\* the for loop: the position of the first record that matches, 0 when none does
RECURSIVE FirstMatch(_, _, _, _)
FirstMatch(rs, k, user_id, callback_data) ==
    IF k > Len(rs) THEN 0
    ELSE IF Matches(rs[k], user_id, callback_data) THEN k
    ELSE FirstMatch(rs, k + 1, user_id, callback_data)

\* a variant that forgets the status
Complete_KeepsStatus(request_data, callback_data, t) ==
    [request_data EXCEPT
        !.dss_result = IF callback_data.result = NoStr THEN EmptyDict
                       ELSE callback_data.result,
        !.completed_at = t]

\* a variant that stamps completed_at once only
Complete_KeepsStamp(request_data, callback_data, t) ==
    [request_data EXCEPT
        !.status = "completed",
        !.dss_result = IF callback_data.result = NoStr THEN EmptyDict
                       ELSE callback_data.result,
        !.completed_at = IF @ = None THEN t ELSE @]

\* the body of the if: the record after the update
Complete(request_data, callback_data, t) ==
    [request_data EXCEPT
        !.status = "completed",
        !.dss_result = IF callback_data.result = NoStr THEN EmptyDict
                       ELSE callback_data.result,
        !.completed_at = t]

\* request_data["user_id"] raises KeyError on a record without the key
ScanRaises(rs, k) ==
    \E j \in 1..(IF k = 0 THEN Len(rs) ELSE k) : rs[j].user_id = NoStr

\* the storage after the handler, the record it updated and what it answers
HandleCallback(rs, user_id, callback_data, t) ==
    LET k == FirstMatch(rs, 1, user_id, callback_data)
    IN IF ScanRaises(rs, k)
       THEN [storage |-> rs, hit |-> 0, response |-> "error"]
       ELSE [storage |-> IF k = 0 THEN rs
                         ELSE [rs EXCEPT ![k] = Complete(rs[k], callback_data, t)],
             hit |-> k,
             response |-> "callback_received"]

\* POST /webhooks/dss-callback/{user_id}
\* cb notes the call until the next step of anything else: the job whose task
\* posted it (None: someone else), the position of the record it updated
\* (0: none), the status that record had, and the answer
dss_webhook_callback(user_id, callback_data) ==
    LET h == HandleCallback(requests_storage, user_id, callback_data, now)
    IN /\ requests_storage' = h.storage
       /\ cb' = [sender |-> None, hit |-> h.hit,
                 seen |-> IF h.hit = 0 THEN NoStr ELSE requests_storage[h.hit].status,
                 response |-> h.response]
       /\ UNCHANGED <<scope, now, admitted, task, receiver, http, logs, jobs_storage, posting, in_flight>>

\* ------------------------------------------- the job service's background task
\* The time stamps and the error text of a job, which nothing reads, are left out.
\* Where the task stands is told by the progress it wrote last (0: not yet
\* started, 100: ended); the status may be changed under it by cancel_job.
Jobs == 1..(2 * MaxAdmissions)

\* jobs_storage[job_id]["progress"] after each asyncio.sleep(2)
NextProgress(progress) ==
    CASE progress = 10 -> 25
      [] progress = 25 -> 50
      [] progress = 50 -> 75
      [] progress = 75 -> 90

\* jobs_storage[job_id]["result"]: the fixed result of the simulation
JobResult == "r1"

\* simulate_job_processing starts: up to its first sleep
simulate_job_processing(j) ==
    /\ posting = None
    /\ j <= Len(jobs_storage)
    /\ jobs_storage[j].progress = 0
    /\ jobs_storage' = [jobs_storage EXCEPT ![j].status = "running", ![j].progress = 10]
    /\ cb' = NoCb
    /\ UNCHANGED <<scope, now, requests_storage, admitted, task, receiver, http, logs, posting, in_flight>>

\* one of its first four sleeps returns
job_sleep_returns(j) ==
    /\ posting = None
    /\ j <= Len(jobs_storage)
    /\ jobs_storage[j].progress \in {10, 25, 50, 75}
    /\ jobs_storage' = [jobs_storage EXCEPT ![j].progress = NextProgress(@)]
    /\ cb' = NoCb
    /\ UNCHANGED <<scope, now, requests_storage, admitted, task, receiver, http, logs, posting, in_flight>>

\* its last sleep returns: the job is written completed and the task enters
\* requests.post, which sends {job_id, status, result} to the callback url.
\* The post is synchronous: until it returns or raises, the job service's
\* event loop runs nothing else, while the dashboard runs on.
job_completes(j) ==
    /\ posting = None
    /\ j <= Len(jobs_storage)
    /\ jobs_storage[j].progress = 90
    /\ jobs_storage' = [jobs_storage EXCEPT ![j].status = "completed",
                                            ![j].progress = 100,
                                            ![j].result = JobResult]
    /\ posting' = j
    /\ in_flight' = in_flight \cup {j}
    /\ cb' = NoCb
    /\ UNCHANGED <<scope, now, requests_storage, admitted, task, receiver, http, logs>>

\* the notification of job j reaches the dashboard, whose dss_webhook_callback
\* handles it: while requests.post waits for the answer, or after it gave up
job_callback_delivered(j) ==
    /\ j \in in_flight
    /\ LET user_id == jobs_storage[j].callback_url[2]
           h == HandleCallback(requests_storage, user_id,
                               [job_id |-> j, result |-> jobs_storage[j].result], now)
       IN /\ requests_storage' = h.storage
          /\ cb' = [sender |-> j, hit |-> h.hit,
                    seen |-> IF h.hit = 0 THEN NoStr ELSE requests_storage[h.hit].status,
                    response |-> h.response]
    /\ in_flight' = in_flight \ {j}
    /\ UNCHANGED <<scope, now, admitted, task, receiver, http, logs, jobs_storage, posting>>

\* requests.post returns: the answer of the handler, whatever its status code,
\* or that of something else on the way, where the notification ends; the
\* answer is not looked at and the task ends
job_callback_returns(j) ==
    /\ posting = j
    /\ j \in in_flight => "callback" \in scope.faults
    /\ posting' = None
    /\ in_flight' = in_flight \ {j}
    /\ cb' = NoCb
    /\ UNCHANGED <<scope, now, requests_storage, admitted, task, receiver, http, logs, jobs_storage>>

\* requests.post raises: the dashboard is not reached (the notification is
\* lost), or no answer came within timeout=5 (the notification may have been
\* handled, or still be on its way); the except clause marks the completed
\* job failed
job_callback_fails(j, lost) ==
    /\ posting = j
    /\ "callback" \in scope.faults
    /\ jobs_storage' = [jobs_storage EXCEPT ![j].status = "failed"]
    /\ posting' = None
    /\ in_flight' = IF lost THEN in_flight \ {j} ELSE in_flight
    /\ cb' = NoCb
    /\ UNCHANGED <<scope, now, requests_storage, admitted, task, receiver, http, logs>>

\* DELETE /f1/jobs/{job_id}: the storage after the call and the status code
CancelJob(jobs, job_id) ==
    IF job_id > Len(jobs) THEN [storage |-> jobs, status_code |-> 404]
    ELSE IF jobs[job_id].status \in {"completed", "failed"}
         THEN [storage |-> jobs, status_code |-> 400]
         ELSE [storage |-> [jobs EXCEPT ![job_id].status = "cancelled"],
               status_code |-> 200]

\* a client of the job service cancels a job
cancel_job(j) ==
    /\ posting = None
    /\ jobs_storage' = CancelJob(jobs_storage, j).storage
    /\ cb' = NoCb
    /\ UNCHANGED <<scope, now, requests_storage, admitted, task, receiver, http, logs, posting, in_flight>>

\* GET /f1/requests/{request_id}: the record, or 404
get_request_status(rs, request_id) ==
    IF IndexOf(rs, request_id) = 0 THEN [status_code |-> 404]
    ELSE rs[IndexOf(rs, request_id)]

\* the wall clock advances
Tick ==
    /\ now < scope.clock
    /\ now' = now + 1
    /\ cb' = NoCb
    /\ UNCHANGED <<scope, requests_storage, admitted, task, receiver, http, logs, jobs_storage, posting, in_flight>>

\* POST /f1/request-tool: the clock is read for the key, and read again, maybe
\* later, for created_at
request_f1_tool(req) ==
    /\ admitted < scope.admissions
    /\ \E t \in now..scope.clock :
         LET rid == RequestId(now, req.user_id)
             i == admitted + 1
         IN /\ requests_storage' = DictSet(requests_storage, rid, NewRecord(rid, req, t))
            /\ task' = [task EXCEPT ![i] = [NoTask EXCEPT !.pc = "queued",
                                                          !.request_id = rid,
                                                          !.f1_request = req]]
            /\ now' = t
    /\ admitted' = admitted + 1
    /\ cb' = NoCb
    /\ UNCHANGED <<scope, receiver, http, logs, jobs_storage, posting, in_flight>>

\* a client sends a request now: at any moment, or when no workflow runs
ClientSends == scope.overlap \/ \A j \in Tasks : task[j].pc \in {"none", "done"}

Next ==
    \/ Tick
    \/ ClientSends /\ \E req \in scope.requests : request_f1_tool(req)
    \/ \E user_id \in scope.callers, callback_data \in Sent(jobs_storage, scope.results) :
            callback_data.job_id \in scope.job_ids /\
            dss_webhook_callback(user_id, callback_data)
    \/ \E i \in Tasks :
        \/ process_f1_request(i)
        \/ start_listening(i)
        \/ \E line \in scope.lines : sse_line(i, line)
        \/ sse_fails(i)
        \/ sse_ends(i)
        \/ listen_cancelled(i)
        \/ \E ok \in BOOLEAN : negotiation_returns(i, ok)
        \/ \E ok \in BOOLEAN : transfer_returns(i, ok)
        \/ sleep_returns(i)
        \/ create_f1_job(i)
        \/ \E ok \in BOOLEAN : call_dss_f1_service_with_token(i, ok)
        \/ \E ok \in BOOLEAN : call_dss_f1_service_direct(i, ok)
        \/ aexit_returns(i)
        \/ aclose_returns(i)
        \/ await_listen_returns(i)
    \/ \E j \in Jobs :
        \/ simulate_job_processing(j)
        \/ job_sleep_returns(j)
        \/ job_completes(j)
        \/ job_callback_delivered(j)
        \/ job_callback_returns(j)
        \/ \E lost \in BOOLEAN : job_callback_fails(j, lost)
        \/ scope.cancels /\ cancel_job(j)

Spec == Init /\ [][Next]_vars
SpecWorkflow == InitWorkflow /\ [][Next]_vars

\* the steps the two event loops take by themselves: every coroutine that can
\* run is run in the end, and every awaited call of the program returns or
\* raises within its timeout; requests, notifications sent by others, stream
\* lines and stream failures come from outside and need not happen
Progress ==
    \/ \E i \in Tasks :
        \/ process_f1_request(i)
        \/ start_listening(i)
        \/ listen_cancelled(i)
        \/ \E ok \in BOOLEAN : negotiation_returns(i, ok)
        \/ \E ok \in BOOLEAN : transfer_returns(i, ok)
        \/ sleep_returns(i)
        \/ create_f1_job(i)
        \/ \E ok \in BOOLEAN : call_dss_f1_service_with_token(i, ok)
        \/ \E ok \in BOOLEAN : call_dss_f1_service_direct(i, ok)
        \/ aexit_returns(i)
        \/ aclose_returns(i)
        \/ await_listen_returns(i)
    \/ \E j \in Jobs :
        \/ simulate_job_processing(j)
        \/ job_sleep_returns(j)
        \/ job_completes(j)
        \/ job_callback_delivered(j)
        \/ job_callback_returns(j)
        \/ \E lost \in BOOLEAN : job_callback_fails(j, lost)

SpecWorkflowFair == SpecWorkflow /\ WF_vars(Progress)

\* ================================================================= claims
Records == 1..Len(requests_storage)

\* position of a status along initiated -> in progress -> job running -> completed
Rank(status) ==
    CASE status = "initiated" -> 0
      [] status = "processing_via_edcpy" -> 1
      [] status = "dss_job_running" -> 2
      [] status = "completed" -> 3
      [] OTHER -> 4

\* a status change the state machine allows: forward along the order, or to
\* failed, and none out of completed or failed
Allowed(a, b) ==
    \/ a = b
    \/ /\ a \notin {"completed", "failed"}
       /\ b = "failed" \/ Rank(b) > Rank(a)

\* C1: while a record stays in the registry, each change of its status goes
\* forward along initiated -> processing -> job running -> completed or to
\* failed, and a completed or failed record keeps its status.
C1_StatusMonotonic ==
    [][admitted' = admitted =>
         \A k \in Records :
            Allowed(requests_storage[k].status, requests_storage'[k].status)]_vars

\* C2: a record becomes completed only out of the job-running state and with a
\* recorded dss_job_id; a record without one is never made completed.
C2_CompletedOnlyFromJobRunning ==
    [][\A k \in Records :
         (requests_storage'[k].status = "completed"
            /\ requests_storage[k].status # "completed")
         => (requests_storage[k].status = "dss_job_running"
               /\ requests_storage[k].dss_job_id # None)]_vars

\* C3: every admission adds a record under a request_id of its own: after N
\* admissions the registry holds N records with N different request_ids.
C3_OneRecordPerAdmission ==
    /\ Len(requests_storage) = admitted
    /\ \A i, j \in 1..admitted :
          i # j => task[i].request_id # task[j].request_id

\* C4: the completion handler applied twice with the user, job id and result
\* of a job-running record leaves it completed after the first call and after
\* the second, and both calls answer callback_received (neither raises).
C4_TwiceCompleted ==
    \A k \in Records, result \in Results, t2 \in now..MaxClock :
        requests_storage[k].status = "dss_job_running" =>
            LET user_id == requests_storage[k].user_id
                data == [job_id |-> requests_storage[k].dss_job_id, result |-> result]
                h1 == HandleCallback(requests_storage, user_id, data, now)
                h2 == HandleCallback(h1.storage, user_id, data, t2)
            IN /\ h1.response = "callback_received"
               /\ h1.storage[k].status = "completed"
               /\ h2.response = "callback_received"
               /\ h2.storage[k].status = "completed"

\* C4 witness: a notification carrying a job id has reached a record that an
\* earlier one had completed, and the record is completed.
C4_Witness ==
    /\ cb.hit > 0
    /\ cb.seen = "completed"
    /\ cb.response = "callback_received"
    /\ requests_storage[cb.hit].dss_job_id # None
    /\ requests_storage[cb.hit].status = "completed"

\* C5 as stated: a notification that reaches a record already completed for
\* its job leaves completed_at as the first notification stamped it.
C5_StampKept ==
    [][\A k \in Records :
         (cb'.hit = k /\ cb'.seen = "completed"
            /\ requests_storage[k].dss_job_id # None)
         => requests_storage'[k].completed_at = requests_storage[k].completed_at]_vars

\* C5 amended: a notification that reaches an already completed record is
\* accepted, leaves it completed and stamps completed_at again with the time
\* of this notification.
C5_Restamped ==
    (cb.hit > 0 /\ cb.seen = "completed") =>
        /\ cb.response = "callback_received"
        /\ requests_storage[cb.hit].status = "completed"
        /\ requests_storage[cb.hit].completed_at = now

\* C5 witness: a repeated notification has acted after the clock moved on.
C5_Witness ==
    /\ cb.hit > 0
    /\ cb.seen = "completed"
    /\ requests_storage[cb.hit].dss_job_id # None
    /\ requests_storage[cb.hit].completed_at = now
    /\ now > requests_storage[cb.hit].created_at

\* no record has this user and this job id (an absent job id compares equal to
\* an absent dss_job_id, as dict.get gives None for both)
NoRecordMatches(user_id, callback_data) ==
    \A k \in Records :
        \/ requests_storage[k].user_id # user_id
        \/ requests_storage[k].dss_job_id # callback_data.job_id

\* C6: a notification whose user and job id match no record changes no field
\* of any record, raises nothing and is answered callback_received: so the
\* handler does on every registry reached, and so did every call that matched
\* nothing.
C6_NoMatchNoChange ==
    /\ [](\A user_id \in Users, callback_data \in CallbackData :
            NoRecordMatches(user_id, callback_data) =>
                HandleCallback(requests_storage, user_id, callback_data, now)
                    = [storage |-> requests_storage, hit |-> 0,
                       response |-> "callback_received"])
    /\ [][cb'.hit = 0 =>
            /\ requests_storage' = requests_storage
            /\ cb'.response = "callback_received"]_vars

\* C6 witness: a notification has matched nothing in a registry that holds a
\* record with a job id.
C6_Witness ==
    /\ cb.hit = 0
    /\ cb.response = "callback_received"
    /\ \E k \in Records : requests_storage[k].dss_job_id # None

\* the record of task i
RecordOf(rs, i) == rs[IndexOf(rs, task[i].request_id)]

\* C7: when a stage of a task's workflow has failed, no further stage runs;
\* the task ends with its record failed and the failure's message in error.
C7_FailureRecorded ==
    [][\A i \in Tasks :
         /\ task[i].stage_exc # NoStr =>
               /\ http'[i] = http[i]
               /\ task'[i].pc \in {"aclose", "await_listen", "done"}
         /\ (task[i].pc # "done" /\ task'[i].pc = "done"
                /\ task'[i].stage_exc # NoStr) =>
               /\ RecordOf(requests_storage', i).status = "failed"
               /\ RecordOf(requests_storage', i).error = task'[i].stage_exc]_vars

\* task i is not inside a job call that was answered and has yet to return
Returned(i) == task[i].pc # "aexit"

\* the job API has answered every POST of task i
Answered(i) == \A c \in 1..Len(http[i]) : http[i][c].outcome # "pending"

\* C8: when the mediated POST failed and the direct POST succeeded, the job id
\* returned is the one the direct POST created, and the log tells that the
\* mediated call failed and the job was created directly.
C8_FallbackJobId ==
    \A i \in Tasks :
        (Len(http[i]) = 2 /\ http[i][1].outcome = "error" /\ http[i][2].outcome = "ok")
        => /\ http[i][2].endpoint = "direct"
           /\ http[i][2].job_id # None
           /\ Returned(i) => task[i].dss_job_id = http[i][2].job_id
           /\ jobs_storage[http[i][2].job_id].callback_url
                = CallbackUrl(task[i].f1_request.user_id)
           /\ {"mediated_failed", "created_direct"} \subseteq logs[i]

\* C8 witness: a task ended after its mediated POST failed and its direct one
\* succeeded.
C8_Witness ==
    \E i \in Tasks :
        /\ task[i].pc = "done"
        /\ Len(http[i]) = 2
        /\ http[i][1].outcome = "error"
        /\ http[i][2].outcome = "ok"

\* C9: the job invocation fails exactly when the mediated and the direct POST
\* both fail; a mediated success returns its job id without any direct POST; a
\* mediated failure is followed by one direct POST with the same building,
\* optimization type and callback address.
C9_FailsIffBothFail ==
    \A i \in Tasks :
        /\ Len(http[i]) <= 2
        /\ Len(http[i]) >= 1 => http[i][1].endpoint = "mediated"
        /\ (Len(http[i]) >= 1 /\ http[i][1].outcome = "ok") =>
              /\ Len(http[i]) = 1
              /\ Returned(i) => task[i].dss_job_id = http[i][1].job_id
              /\ task[i].stage_exc = NoStr
        /\ (Len(http[i]) >= 1 /\ http[i][1].outcome = "error"
              /\ (Returned(i) \/ Len(http[i]) # 1)) =>
              /\ Len(http[i]) = 2
              /\ http[i][2].endpoint = "direct"
              /\ http[i][2].building_id = http[i][1].building_id
              /\ http[i][2].optimization_type = http[i][1].optimization_type
              /\ http[i][2].callback_url = http[i][1].callback_url
              /\ http[i][2].building_id = task[i].f1_request.building_id
              /\ http[i][2].callback_url = CallbackUrl(task[i].f1_request.user_id)
        /\ (task[i].stage_exc = "DirectCallFailed") <=>
              (Len(http[i]) = 2 /\ http[i][1].outcome = "error"
                 /\ http[i][2].outcome = "error" /\ Returned(i))
        /\ (Len(http[i]) >= 1 /\ Answered(i) /\ Returned(i)) =>
              (task[i].dss_job_id = None <=> task[i].stage_exc = "DirectCallFailed")

\* C9 witness: a task ended after both POSTs failed.
C9_Witness ==
    \E i \in Tasks :
        /\ task[i].pc = "done"
        /\ task[i].stage_exc = "DirectCallFailed"
        /\ Len(http[i]) = 2

\* C10: when run_edcpy_negotiation_and_transfer has been left, on whatever
\* path, the receiver is stopped, the listen task has been cancelled and is
\* finished, and no CancelledError is reported as the workflow's error.
C10_CleanedUp ==
    \A i \in Tasks :
        task[i].pc = "done" =>
            /\ ~receiver[i].listening
            /\ receiver[i].cancel_called
            /\ TaskDone(receiver[i].listen_task)
            /\ task[i].exc # "CancelledError"
            /\ RecordOf(requests_storage, i).error # "CancelledError"

\* C10 witness: a workflow whose listen task was running ended in a stage
\* failure, the listen task cancelled.
C10_Witness ==
    \E i \in Tasks :
        /\ task[i].pc = "done"
        /\ task[i].stage_exc # NoStr
        /\ receiver[i].client
        /\ receiver[i].listen_task = "cancelled"

\* C11: get_credentials raises its timeout only when the entry of the transfer
\* id is absent at that moment: an entry stored before the deadline, the last
\* tick included, is returned and not timed out.
C11_TimeoutOnlyWhenAbsent ==
    [][\A i \in Tasks :
         (task'[i].stage_exc = "CredentialTimeout" /\ task[i].stage_exc = NoStr)
         => ~HasCredentials(receiver[i].credentials, task[i].transfer_id)]_vars

\* a fresh get_credentials call of task i on its receiver, as it stands
FreshCall(i) == GetCredentials(SetTask(Bundle, i, [task[i] EXCEPT !.polls = 0]), i)

\* task i holds a transfer id whose entry is in its receiver
EntryHeld(i) ==
    /\ task[i].transfer_id # None
    /\ task[i].pc # "done"
    /\ HasCredentials(receiver[i].credentials, task[i].transfer_id)

\* C12: once the entry of a transfer id exists, a get_credentials call returns
\* at once and leaves the receiver as it was, so that a second call gives the
\* same; while the receiver lives the entry is never removed, and it changes
\* only when the subscription task processes a further message carrying the
\* same transfer id (the last write wins).
C12_NonDestructive ==
    /\ [](\A i \in Tasks : EntryHeld(i) =>
            /\ FreshCall(i).task[i].pc = "access_token"
            /\ FreshCall(i).receiver = receiver
            /\ FreshCall(i).rs = requests_storage)
    /\ [][\A i \in Tasks : (EntryHeld(i) /\ task'[i].pc # "done") =>
            /\ EntryHeld(i)'
            /\ receiver'[i].credentials[task[i].transfer_id]
                    # receiver[i].credentials[task[i].transfer_id]
               => \E line \in Lines :
                     /\ line.kind = "data"
                     /\ line.data.transfer_process_id = task[i].transfer_id
                     /\ receiver'[i].credentials[task[i].transfer_id] = line.data]_vars

\* C12 as first stated: the entry of a transfer id, once there, keeps its value
\* for as long as the receiver lives, whatever further messages arrive.
C12_SameValue ==
    [][\A i \in Tasks : (EntryHeld(i) /\ task'[i].pc # "done") =>
            receiver'[i].credentials[task[i].transfer_id]
                = receiver[i].credentials[task[i].transfer_id]]_vars

\* C12 witness: the mediated call was made with the token retrieved, and a
\* later message has since replaced the entry by one with another token.
C12_Witness ==
    \E i \in Tasks :
        /\ EntryHeld(i)
        /\ task[i].pc = "mediated"
        /\ AccessToken(receiver[i].credentials[task[i].transfer_id]) # http[i][1].auth

\* C13: while negotiation, transfer, credential wait or job invocation of a
\* request is in progress, a status query for it answers the status naming
\* that stage.
C13_StageVisible ==
    \A i \in Tasks :
        LET status == get_request_status(requests_storage, task[i].request_id).status
        IN /\ task[i].pc = "negotiation" => status = "negotiating"
           /\ task[i].pc = "transfer" => status = "transfer_initiating"
           /\ task[i].pc = "sleep" => status = "awaiting_credential"
           /\ task[i].pc \in {"mediated", "direct"} => status = "invoking"

\* C14: a record in the job-running state holds contract_agreement_id,
\* transfer_process_id and a populated dss_job_id.
C14_IdsRecorded ==
    \A k \in Records :
        requests_storage[k].status = "dss_job_running" =>
            /\ "contract_agreement_id" \in DOMAIN requests_storage[k]
            /\ "transfer_process_id" \in DOMAIN requests_storage[k]
            /\ requests_storage[k].dss_job_id # None

\* C15: no update of a record is lost between the workflow and the completion
\* handler: the fields the handler alone writes (dss_result, completed_at)
\* keep their values through every step that is not a matching notification,
\* the fields the workflow alone writes (dss_job_id, error) keep theirs through
\* every notification, and once a workflow has ended its record holds the job
\* id or the error it wrote.
C15_NoLostUpdate ==
    /\ [](\A i \in Tasks : task[i].pc = "done" =>
            IF task[i].exc = NoStr
            THEN RecordOf(requests_storage, i).dss_job_id = task[i].dss_job_id
            ELSE RecordOf(requests_storage, i).error = task[i].exc)
    /\ [][\A k \in Records :
            /\ cb'.hit # k =>
                  /\ requests_storage'[k].dss_result = requests_storage[k].dss_result
                  /\ requests_storage'[k].completed_at = requests_storage[k].completed_at
            /\ cb'.hit = k =>
                  /\ requests_storage'[k].dss_job_id = requests_storage[k].dss_job_id
                  /\ requests_storage'[k].error = requests_storage[k].error]_vars

\* the records of this user whose dss_job_id equals the body's job_id
Matching(user_id, callback_data) ==
    {k \in Records : /\ requests_storage[k].user_id = user_id
                      /\ requests_storage[k].dss_job_id = callback_data.job_id}

\* two records that differ in status, dss_result and completed_at at most
SameButCompletion(a, b) ==
    b = [a EXCEPT !.status = b.status, !.dss_result = b.dss_result,
                  !.completed_at = b.completed_at]

\* C16: one notification updates at most one record, the first in creation
\* order whose user_id and dss_job_id match; of that record it changes status,
\* dss_result and completed_at only, and it changes no other record: so the
\* handler does on every registry reached, and so did every call made.
C16_OneRecordThreeFields ==
    /\ [](\A user_id \in Users, callback_data \in Sent(jobs_storage, Results) :
            LET h == HandleCallback(requests_storage, user_id, callback_data, now)
                M == Matching(user_id, callback_data)
            IN /\ h.hit = IF M = {} THEN 0 ELSE Min(M)
               /\ Len(h.storage) = Len(requests_storage)
               /\ \A k \in Records :
                     IF k = h.hit
                     THEN SameButCompletion(requests_storage[k], h.storage[k])
                     ELSE h.storage[k] = requests_storage[k])
    /\ [][cb'.hit >= 0 =>
            /\ Len(requests_storage') = Len(requests_storage)
            /\ \A k \in Records :
                  IF k = cb'.hit
                  THEN SameButCompletion(requests_storage[k], requests_storage'[k])
                  ELSE requests_storage'[k] = requests_storage[k]]_vars

\* C16 witness: a notification has just completed the first record while a
\* later record of the same user with the same dss_job_id was left as it was.
C16_Witness ==
    /\ cb.hit = 1
    /\ Len(requests_storage) = 2
    /\ requests_storage[2].user_id = requests_storage[1].user_id
    /\ requests_storage[2].dss_job_id = requests_storage[1].dss_job_id
    /\ requests_storage[1].status = "completed"
    /\ requests_storage[2].status # "completed"

\* C17: the stages of one workflow run follow one another: the transfer starts
\* when the negotiation has returned, the transfer id is set and the wait for
\* the credential starts when the transfer has returned, and a job endpoint is
\* called only when the receiver holds, for that transfer id, a credential with
\* an access token: first the mediated one with that token, and the direct one
\* only from the mediated call.
C17_StagesInOrder ==
    [][\A i \in Tasks :
         /\ (task'[i].pc = "transfer" /\ task[i].pc # "transfer")
               => task[i].pc = "negotiation"
         /\ task'[i].transfer_id # task[i].transfer_id
               => task[i].pc = "transfer" /\ task'[i].transfer_id # None
         /\ (task'[i].pc = "sleep" /\ task[i].pc # "sleep")
               => task[i].pc = "transfer" /\ task'[i].transfer_id # None
         /\ Len(http'[i]) > Len(http[i]) =>
               /\ Len(http'[i]) = Len(http[i]) + 1
               /\ task'[i].transfer_id # None
               /\ Len(http[i]) = 0 =>
                     LET c == receiver[i].credentials[task'[i].transfer_id]
                     IN /\ task[i].pc \in {"transfer", "sleep"}
                        /\ c.transfer_process_id = task'[i].transfer_id
                        /\ AccessToken(c) # NoStr
                        /\ http'[i][1].endpoint = "mediated"
                        /\ http'[i][1].auth = AccessToken(c)
               /\ Len(http[i]) > 0 =>
                     /\ task[i].pc = "aexit"
                     /\ http[i][1].outcome = "error"
                     /\ Len(http[i]) = 1
                     /\ http[i][1].auth # NoStr
                     /\ http'[i][2].endpoint = "direct"]_vars

\* C17 witness: a run that waited for its credential has posted to the mediated
\* endpoint.
C17_Witness ==
    \E i \in Tasks :
        /\ task[i].pc = "mediated"
        /\ task[i].polls > 0
        /\ Len(http[i]) = 1

\* C19: a run whose job invocation returned a job id ends with its record in
\* the job-running state and that job id in dss_job_id, never in failed.
C19_JobIdKept ==
    [][\A i \in Tasks :
         (task'[i].pc = "done" /\ task[i].pc # "done" /\ task'[i].dss_job_id # None)
         => /\ RecordOf(requests_storage', i).status = "dss_job_running"
            /\ RecordOf(requests_storage', i).dss_job_id = task'[i].dss_job_id]_vars

\* the jobs the POSTs of task i created in the job service
JobsOf(i) == {http[i][c].job_id : c \in 1..Len(http[i])} \ {None}

\* C20: one request creates at most one job in the job service.
C20_AtMostOneJob == \A i \in Tasks : Cardinality(JobsOf(i)) <= 1

\* the record of task i is completed with a result attached
RequestCompleted(i) ==
    /\ IndexOf(requests_storage, task[i].request_id) # 0
    /\ RecordOf(requests_storage, i).status = "completed"
    /\ RecordOf(requests_storage, i).dss_result # NoStr

\* job j, created by task i, is completed and the notification its task posted
\* has just been handled by the completion endpoint
Notified(i, j) ==
    /\ j \in JobsOf(i)
    /\ j <= Len(jobs_storage)
    /\ jobs_storage[j].status = "completed"
    /\ cb.sender = j
    /\ cb.response = "callback_received"

\* C18: when a job that task i created has completed and its notification has
\* been delivered to the completion endpoint, the record of task i is
\* eventually completed with the result attached.
C18_EventuallyCompleted ==
    \A i \in Tasks : []((\E j \in Jobs : Notified(i, j)) => <>RequestCompleted(i))

\* the statuses of a job the claim calls final
FinalStatuses == {"completed", "failed", "cancelled"}

\* C21: a job that is completed, failed or cancelled keeps its status through
\* every later step of simulate_job_processing and every cancel_job call, and
\* cancel_job on a completed or failed job is rejected with the job unchanged.
C21_FinalStatuses ==
    /\ [](\A j \in 1..Len(jobs_storage) :
            jobs_storage[j].status \in {"completed", "failed"} =>
               CancelJob(jobs_storage, j) = [storage |-> jobs_storage, status_code |-> 400])
    /\ [][\A j \in 1..Len(jobs_storage) :
            jobs_storage[j].status \in FinalStatuses =>
               jobs_storage'[j].status = jobs_storage[j].status]_vars
====
